---- MODULE Spec2Model ----
(***************************************************************************)
(* TagBlaze server: token service, authorization guard, and the ticket,   *)
(* tag, relation and admin handlers, as a state machine over the database *)
(* tables.  One action per HTTP request; every handler is an operator     *)
(* from (database, clock, request) to (database', status, body).          *)
(***************************************************************************)
EXTENDS Integers, Sequences, FiniteSets, Bags, TLC

VARIABLES
    db,       \* the tables "user", ticket, tag, ticket_tag and their identity counters
    clock,    \* Utc::now() in seconds
    ticks,    \* how often the clock was advanced (bounds the run)
    issued,   \* tokens returned by login_user that a client still holds
    issuedTo, \* for each held token, the user record it was issued to (observation only)
    pre,      \* the database as it was when the last request arrived
    last,     \* the last request and its response
    flight    \* the requests being served concurrently, per connection

vars == <<db, clock, ticks, issued, issuedTo, pre, last, flight>>
client == <<issued, issuedTo>>

----------------------------------------------------------------------------
(* Bounds of the model *)

StartTime == 100000
MaxTicks == 1
MaxIssued == 1
MaxUserId == 4
MaxTicketId == 2
MaxTagId == 3
MaxConnections == 3

(* Program constants *)

\* Duration::hours(24), in seconds
TokenTTL == 86400
\* Validation::default(): leeway of 60 seconds on exp
Leeway == 60

JWT_SECRET == "jwt-secret"
OtherSecret == "attacker-secret"

----------------------------------------------------------------------------
(* Option and Result *)

Some(x) == <<x>>
None == <<>>

Ok(v) == [ok |-> TRUE, val |-> v]
Err(e) == [ok |-> FALSE, val |-> e]

----------------------------------------------------------------------------
(* Token service: utils/jwt.rs *)

\* HS256 signature of the payload {sub, exp} under key: a function of all three
Sign(key, sub, exp) == <<key, sub, exp>>

\* a string that is not three base64 segments of a JSON header and payload
Garbage == [wf |-> FALSE, sub |-> "", exp |-> 0, sig |-> <<>>]

create_jwt_NoTTL(sub, secret, now) ==
    [wf |-> TRUE, sub |-> sub, exp |-> now, sig |-> Sign(secret, sub, now)]

create_jwt(sub, secret, now) ==
    LET expiration == now + TokenTTL
    IN  [wf |-> TRUE, sub |-> sub, exp |-> expiration,
         sig |-> Sign(secret, sub, expiration)]

\* jsonwebtoken::decode with Validation::default(): structure, signature, exp
decode_NoSignature(token, secret, now) ==
    IF ~token.wf THEN Err("InvalidToken")
    ELSE IF token.exp < now - Leeway THEN Err("ExpiredSignature")
    ELSE Ok([sub |-> token.sub, exp |-> token.exp])

decode(token, secret, now) ==
    IF ~token.wf THEN Err("InvalidToken")
    ELSE IF token.sig # Sign(secret, token.sub, token.exp) THEN Err("InvalidSignature")
    ELSE IF token.exp < now - Leeway THEN Err("ExpiredSignature")
    ELSE Ok([sub |-> token.sub, exp |-> token.exp])

\* utils::jwt::extract_claims(token: &str)
jwt_extract_claims(token, now) ==
    LET token_data == decode(token, JWT_SECRET, now)
    IN  IF token_data.ok THEN Ok(token_data.val) ELSE Err(401)

----------------------------------------------------------------------------
(* Authorization header and the two guards *)

NoHeader == [present |-> FALSE, pre |-> "", rest |-> Garbage]
\* a header value: its first seven characters and what follows them
Hdr(p, tok) == [present |-> TRUE, pre |-> p, rest |-> tok]

strip_prefix_AnyCase(h) ==
    IF h.pre \in {"Bearer ", "bearer "} THEN Some(h.rest) ELSE None

\* auth_header.strip_prefix("Bearer ")
strip_prefix(h) ==
    IF h.pre = "Bearer " THEN Some(h.rest) ELSE None

\* utils::auth::extract_claims(req: &Request<B>)
auth_extract_claims(h, now) ==
    IF ~h.present THEN Err(401)
    ELSE LET token == strip_prefix(h)
         IN  IF token = None THEN Err(401)
             ELSE LET token_data == decode(token[1], JWT_SECRET, now)
                  IN  IF token_data.ok THEN Ok(token_data.val) ELSE Err(401)

\* The extractor TypedHeader<Authorization<Bearer>> in a handler's signature: the
\* request is rejected with 400 before the handler runs when the header is missing
\* or is not of the Bearer scheme.  Whether the scheme is matched ignoring case
\* depends on the version of the headers crate the build uses (ci).
TypedHeaderBearer(h, ci) ==
    IF ~h.present THEN Err(400)
    ELSE IF h.pre = "Bearer " \/ (ci /\ h.pre = "bearer ") THEN Ok(h.rest)
    ELSE Err(400)

----------------------------------------------------------------------------
(* Credential hasher: bcrypt::hash / bcrypt::verify *)

hash(password, salt) == [wf |-> TRUE, plain |-> password, salt |-> salt]

verify(password, digest) ==
    IF ~digest.wf THEN Err("InvalidHash") ELSE Ok(digest.plain = password)

----------------------------------------------------------------------------
(* Persistence layer: the tables and their constraints *)

EmptyDb ==
    [users |-> {}, tickets |-> {}, tags |-> {}, ticket_tag |-> EmptyBag,
     seq |-> [user |-> 1, ticket |-> 1, tag |-> 1]]

\* column defaults for columns an insert leaves NotSet
DefaultStatus == Some("open")
DefaultTimestamp == None

\* user::Entity::find().filter(Email.eq(email)).one(db)
FindUserByEmail(d, email) ==
    LET found == {u \in d.users : u.email = email}
    IN  IF found = {} THEN None ELSE Some(CHOOSE u \in found : TRUE)

\* ticket::Entity::find_by_id(id).one(db)
FindTicketById(d, id) ==
    LET found == {t \in d.tickets : t.id = id}
    IN  IF found = {} THEN None ELSE Some(CHOOSE t \in found : TRUE)

\* user::ActiveModel::insert: serial id, unique email
InsertUser(d, row) ==
    IF \E u \in d.users : u.email = row.email THEN Err("unique_violation")
    ELSE LET model == [id |-> d.seq.user, email |-> row.email,
                       password |-> row.password, role |-> row.role]
         IN  Ok([db |-> [d EXCEPT !.users = @ \cup {model}, !.seq.user = @ + 1],
                 model |-> model])

\* ticket::ActiveModel::insert: serial id, NotSet columns take their defaults
InsertTicket(d, row) ==
    LET model == [id |-> d.seq.ticket, title |-> row.title,
                  description |-> row.description, status |-> row.status,
                  user_id |-> row.user_id, created_at |-> row.created_at,
                  updated_at |-> row.updated_at]
    IN  Ok([db |-> [d EXCEPT !.tickets = @ \cup {model}, !.seq.ticket = @ + 1],
            model |-> model])

\* tag::ActiveModel::insert
InsertTag(d, row) ==
    LET model == [id |-> d.seq.tag, name |-> row.name,
                  created_at |-> row.created_at, updated_at |-> row.updated_at]
    IN  Ok([db |-> [d EXCEPT !.tags = @ \cup {model}, !.seq.tag = @ + 1],
            model |-> model])

\* tag::Entity::find_by_id(id).one(db)
FindTagById(d, id) ==
    LET found == {t \in d.tags : t.id = id}
    IN  IF found = {} THEN None ELSE Some(CHOOSE t \in found : TRUE)

\* tag ActiveModel::update: UPDATE tag SET name = ..., updated_at = ... WHERE id = ...
UpdateTag(d, id, active) ==
    IF \E t \in d.tags : t.id = id
    THEN LET old == CHOOSE t \in d.tags : t.id = id
             new == [old EXCEPT !.name = active.name[1],
                                !.updated_at = active.updated_at[1]]
         IN  Ok([d EXCEPT !.tags = (@ \ {old}) \cup {new}])
    ELSE Err("RecordNotUpdated")

\* tag ModelTrait::delete: DELETE FROM tag WHERE id = ...
DeleteTag(d, id) ==
    [d EXCEPT !.tags = {t \in @ : t.id # id}]

\* ticket_tag::ActiveModel::insert: the pair (ticket_id, tag_id) is unique
InsertTicketTag(d, row) ==
    IF BagIn(row, d.ticket_tag) THEN Err("unique_violation")
    ELSE Ok([db |-> [d EXCEPT !.ticket_tag = @ (+) SetToBag({row})], model |-> row])

DeleteTicketTag_ByTicket(d, ticket_id, tag_id) ==
    LET keep == {r \in BagToSet(d.ticket_tag) : r.ticket_id # ticket_id}
    IN  [d EXCEPT !.ticket_tag = [r \in keep |-> d.ticket_tag[r]]]

\* delete_many().filter(TicketId.eq(ticket_id)).filter(TagId.eq(tag_id)).exec(db)
DeleteTicketTag(d, ticket_id, tag_id) ==
    LET keep == {r \in BagToSet(d.ticket_tag) :
                    ~(r.ticket_id = ticket_id /\ r.tag_id = tag_id)}
    IN  [d EXCEPT !.ticket_tag = [r \in keep |-> d.ticket_tag[r]]]

\* ActiveModel::delete: DELETE FROM ticket WHERE id = ...
DeleteTicket(d, id) ==
    [d EXCEPT !.tickets = {t \in @ : t.id # id}]

UpdateTicket_AllColumns(d, id, active) ==
    LET apply(t) ==
            [t EXCEPT
                !.title = IF active.title = None THEN @ ELSE active.title[1],
                !.description = IF active.description = None THEN None
                                ELSE active.description[1],
                !.status = IF active.status = None THEN None ELSE active.status[1],
                !.updated_at = IF active.updated_at = None THEN @ ELSE active.updated_at[1]]
    IN  IF \E t \in d.tickets : t.id = id
        THEN LET old == CHOOSE t \in d.tickets : t.id = id
             IN  Ok([db |-> [d EXCEPT !.tickets = (@ \ {old}) \cup {apply(old)}],
                     model |-> apply(old)])
        ELSE Err("RecordNotUpdated")

\* ActiveModel::update: UPDATE ticket SET <the Set columns> WHERE id = ...;
\* a column of the active model is Some(v) when Set(v), None when Unchanged
UpdateTicket(d, id, active) ==
    LET apply(t) ==
            [t EXCEPT
                !.title = IF active.title = None THEN @ ELSE active.title[1],
                !.description = IF active.description = None THEN @ ELSE active.description[1],
                !.status = IF active.status = None THEN @ ELSE active.status[1],
                !.updated_at = IF active.updated_at = None THEN @ ELSE active.updated_at[1]]
    IN  IF \E t \in d.tickets : t.id = id
        THEN LET old == CHOOSE t \in d.tickets : t.id = id
             IN  Ok([db |-> [d EXCEPT !.tickets = (@ \ {old}) \cup {apply(old)}],
                     model |-> apply(old)])
        ELSE Err("RecordNotUpdated")

----------------------------------------------------------------------------
(* Responses *)

Resp(d, status, body) == [db |-> d, status |-> status, body |-> body]
NoBody == ""
\* an unwrap() on an Err: the handler's task panics and no response is written
Panic(d) == Resp(d, 0, "panic")

----------------------------------------------------------------------------
(* handlers/auth.rs *)

register_user(d, payload, salt) ==
    LET password_hash == hash(payload.password, salt)
        res == InsertUser(d, [email |-> payload.email, password |-> password_hash,
                              role |-> payload.role])
    IN  IF res.ok THEN Resp(res.val.db, 201, "User registered successfully!")
        ELSE Resp(d, 500, "Could not register user.")

login_user_UnknownIsNotFound(d, payload, now) ==
    LET user == FindUserByEmail(d, payload.email)
    IN  IF user = None THEN Resp(d, 404, NoBody)
        ELSE LET valid == verify(payload.password, user[1].password)
             IN  IF ~valid.ok THEN Panic(d)
                 ELSE IF valid.val
                 THEN Resp(d, 200, [token |-> create_jwt(user[1].email, JWT_SECRET, now)])
                 ELSE Resp(d, 401, NoBody)

\* verify(..).unwrap(): an Err of the hasher panics
login_user(d, payload, now) ==
    LET user == FindUserByEmail(d, payload.email)
    IN  IF user = None THEN Resp(d, 401, NoBody)
        ELSE LET valid == verify(payload.password, user[1].password)
             IN  IF ~valid.ok THEN Panic(d)
                 ELSE IF valid.val
                 THEN Resp(d, 200, [token |-> create_jwt(user[1].email, JWT_SECRET, now)])
                 ELSE Resp(d, 401, NoBody)

\* login_user when the persistence layer fails at step fail: connect() expects the
\* connection, and the user lookup is unwrapped
login_user_failing(d, payload, now, fail) ==
    IF fail = "connect" THEN Panic(d)
    ELSE IF fail = "find_user" THEN Panic(d)
    ELSE login_user(d, payload, now)

me(d, h, now) ==
    LET claims == auth_extract_claims(h, now)
    IN  IF claims.ok THEN Resp(d, 200, <<"Logged in as", claims.val.sub>>)
        ELSE Resp(d, 200, <<"Invalid token">>)

----------------------------------------------------------------------------
(* handlers/ticket.rs and routes/ticket.rs.  impl names the copy: "handlers" *)
(* sets the timestamps, "routes" (the one mounted under /tickets) does not.  *)

can_access_OwnerNone(user, ticket) ==
    user.role = "admin" \/ ticket.user_id = Some(user.id) \/ ticket.user_id = None

can_access_AnyAuthenticated(user, ticket) == TRUE

\* the negation of: user.role != "admin" && ticket.user_id != Some(user.id)
can_access(user, ticket) ==
    user.role = "admin" \/ ticket.user_id = Some(user.id)

create_ticket_NoDefaultStatus(d, now, h, ci, payload, impl) ==
    LET bearer == TypedHeaderBearer(h, ci)
    IN  IF ~bearer.ok THEN Resp(d, bearer.val, NoBody) ELSE
    LET claims == jwt_extract_claims(bearer.val, now)
    IN  IF ~claims.ok THEN Resp(d, 401, NoBody) ELSE
    LET user_record == FindUserByEmail(d, claims.val.sub)
    IN  IF user_record = None THEN Resp(d, 401, NoBody) ELSE
    LET stamp == IF impl = "handlers" THEN Some(now) ELSE DefaultTimestamp
        new_ticket == [title |-> payload.title,
                       description |-> payload.description,
                       status |-> payload.status,
                       user_id |-> Some(user_record[1].id),
                       created_at |-> stamp, updated_at |-> stamp]
        res == InsertTicket(d, new_ticket)
    IN  IF res.ok THEN Resp(res.val.db, 200, res.val.model)
        ELSE Resp(d, 500, NoBody)

create_ticket(d, now, h, ci, payload, impl) ==
    LET bearer == TypedHeaderBearer(h, ci)
    IN  IF ~bearer.ok THEN Resp(d, bearer.val, NoBody) ELSE
    LET claims == jwt_extract_claims(bearer.val, now)
    IN  IF ~claims.ok THEN Resp(d, 401, NoBody) ELSE
    LET user_record == FindUserByEmail(d, claims.val.sub)
    IN  IF user_record = None THEN Resp(d, 401, NoBody) ELSE
    LET stamp == IF impl = "handlers" THEN Some(now) ELSE DefaultTimestamp
        new_ticket == [title |-> payload.title,
                       description |-> payload.description,
                       status |-> Some(IF payload.status = None THEN "open"
                                       ELSE payload.status[1]),
                       user_id |-> Some(user_record[1].id),
                       created_at |-> stamp, updated_at |-> stamp]
        res == InsertTicket(d, new_ticket)
    IN  IF res.ok THEN Resp(res.val.db, 200, res.val.model)
        ELSE Resp(d, 500, NoBody)

get_tickets_AllForEveryone(d, now, h, ci) ==
    LET bearer == TypedHeaderBearer(h, ci)
    IN  IF ~bearer.ok THEN Resp(d, bearer.val, NoBody) ELSE
    LET claims == jwt_extract_claims(bearer.val, now)
    IN  IF ~claims.ok THEN Resp(d, 401, NoBody) ELSE
    LET user == FindUserByEmail(d, claims.val.sub)
    IN  IF user = None THEN Resp(d, 401, NoBody) ELSE
        Resp(d, 200, d.tickets)

get_tickets_OwnedOrUnowned(d, now, h, ci) ==
    LET bearer == TypedHeaderBearer(h, ci)
    IN  IF ~bearer.ok THEN Resp(d, bearer.val, NoBody) ELSE
    LET claims == jwt_extract_claims(bearer.val, now)
    IN  IF ~claims.ok THEN Resp(d, 401, NoBody) ELSE
    LET user == FindUserByEmail(d, claims.val.sub)
    IN  IF user = None THEN Resp(d, 401, NoBody) ELSE
    LET tickets == IF user[1].role = "admin" THEN d.tickets
                   ELSE {t \in d.tickets : t.user_id \in {None, Some(user[1].id)}}
    IN  Resp(d, 200, tickets)

get_tickets(d, now, h, ci) ==
    LET bearer == TypedHeaderBearer(h, ci)
    IN  IF ~bearer.ok THEN Resp(d, bearer.val, NoBody) ELSE
    LET claims == jwt_extract_claims(bearer.val, now)
    IN  IF ~claims.ok THEN Resp(d, 401, NoBody) ELSE
    LET user == FindUserByEmail(d, claims.val.sub)
    IN  IF user = None THEN Resp(d, 401, NoBody) ELSE
    LET tickets == IF user[1].role = "admin" THEN d.tickets
                   ELSE {t \in d.tickets : t.user_id = Some(user[1].id)}
    IN  Resp(d, 200, tickets)

\* looks the ticket up before the user
get_ticket_by_id(d, now, h, ci, ticket_id) ==
    LET bearer == TypedHeaderBearer(h, ci)
    IN  IF ~bearer.ok THEN Resp(d, bearer.val, NoBody) ELSE
    LET claims == jwt_extract_claims(bearer.val, now)
    IN  IF ~claims.ok THEN Resp(d, 401, NoBody) ELSE
    LET ticket == FindTicketById(d, ticket_id)
    IN  IF ticket = None THEN Resp(d, 404, NoBody) ELSE
    LET user == FindUserByEmail(d, claims.val.sub)
    IN  IF user = None THEN Resp(d, 401, NoBody) ELSE
        IF ~can_access(user[1], ticket[1]) THEN Resp(d, 403, NoBody)
        ELSE Resp(d, 200, ticket[1])

delete_ticket_by_id(d, now, h, ci, ticket_id) ==
    LET bearer == TypedHeaderBearer(h, ci)
    IN  IF ~bearer.ok THEN Resp(d, bearer.val, NoBody) ELSE
    LET claims == jwt_extract_claims(bearer.val, now)
    IN  IF ~claims.ok THEN Resp(d, 401, NoBody) ELSE
    LET user == FindUserByEmail(d, claims.val.sub)
    IN  IF user = None THEN Resp(d, 401, NoBody) ELSE
    LET ticket == FindTicketById(d, ticket_id)
    IN  IF ticket = None THEN Resp(d, 404, NoBody) ELSE
        IF ~can_access(user[1], ticket[1]) THEN Resp(d, 403, NoBody)
        ELSE Resp(DeleteTicket(d, ticket[1].id), 204, NoBody)

update_ticket_by_id_WriteFirst(d, now, h, ci, ticket_id, payload, impl) ==
    LET bearer == TypedHeaderBearer(h, ci)
    IN  IF ~bearer.ok THEN Resp(d, bearer.val, NoBody) ELSE
    LET claims == jwt_extract_claims(bearer.val, now)
    IN  IF ~claims.ok THEN Resp(d, 401, NoBody) ELSE
    LET user == FindUserByEmail(d, claims.val.sub)
    IN  IF user = None THEN Resp(d, 401, NoBody) ELSE
    LET ticket == FindTicketById(d, ticket_id)
    IN  IF ticket = None THEN Resp(d, 404, NoBody) ELSE
    LET active_ticket ==
            [title |-> payload.title,
             description |-> IF payload.description = None THEN None
                             ELSE Some(payload.description),
             status |-> IF payload.status = None THEN None
                        ELSE Some(payload.status),
             updated_at |-> IF impl = "handlers" THEN Some(Some(now)) ELSE None]
        res == UpdateTicket(d, ticket[1].id, active_ticket)
    IN  IF ~res.ok THEN Resp(d, 500, NoBody)
        ELSE IF ~can_access(user[1], ticket[1]) THEN Resp(res.val.db, 403, NoBody)
        ELSE Resp(res.val.db, 200, res.val.model)

update_ticket_by_id(d, now, h, ci, ticket_id, payload, impl) ==
    LET bearer == TypedHeaderBearer(h, ci)
    IN  IF ~bearer.ok THEN Resp(d, bearer.val, NoBody) ELSE
    LET claims == jwt_extract_claims(bearer.val, now)
    IN  IF ~claims.ok THEN Resp(d, 401, NoBody) ELSE
    LET user == FindUserByEmail(d, claims.val.sub)
    IN  IF user = None THEN Resp(d, 401, NoBody) ELSE
    LET ticket == FindTicketById(d, ticket_id)
    IN  IF ticket = None THEN Resp(d, 404, NoBody) ELSE
        IF ~can_access(user[1], ticket[1]) THEN Resp(d, 403, NoBody) ELSE
    LET active_ticket ==
            [title |-> payload.title,
             description |-> IF payload.description = None THEN None
                             ELSE Some(payload.description),
             status |-> IF payload.status = None THEN None
                        ELSE Some(payload.status),
             updated_at |-> IF impl = "handlers" THEN Some(Some(now)) ELSE None]
        res == UpdateTicket(d, ticket[1].id, active_ticket)
    IN  IF res.ok THEN Resp(res.val.db, 200, res.val.model)
        ELSE Resp(d, 500, NoBody)

\* update_ticket_by_id (either copy) when the persistence layer fails at step fail,
\* if the handler gets that far: connect() expects the connection, both lookups are
\* unwrapped, and an Err of the update is matched
update_ticket_by_id_failing(d, now, h, ci, ticket_id, payload, impl, fail) ==
    LET bearer == TypedHeaderBearer(h, ci)
    IN  IF ~bearer.ok THEN Resp(d, bearer.val, NoBody) ELSE
        IF fail = "connect" THEN Panic(d) ELSE
    LET claims == jwt_extract_claims(bearer.val, now)
    IN  IF ~claims.ok THEN Resp(d, 401, NoBody) ELSE
        IF fail = "find_user" THEN Panic(d) ELSE
    LET user == FindUserByEmail(d, claims.val.sub)
    IN  IF user = None THEN Resp(d, 401, NoBody) ELSE
        IF fail = "find_ticket" THEN Panic(d) ELSE
    LET ticket == FindTicketById(d, ticket_id)
    IN  IF ticket = None THEN Resp(d, 404, NoBody) ELSE
        IF ~can_access(user[1], ticket[1]) THEN Resp(d, 403, NoBody) ELSE
        IF fail = "update" THEN Resp(d, 500, NoBody)
        ELSE update_ticket_by_id(d, now, h, ci, ticket_id, payload, impl)

\* the write of update_ticket_by_id, on the ticket model read before the check:
\* UPDATE ticket SET <the Set columns> WHERE id = ticket.id
update_ticket_write(d, now, ticket, payload, impl) ==
    LET active_ticket ==
            [title |-> payload.title,
             description |-> IF payload.description = None THEN None
                             ELSE Some(payload.description),
             status |-> IF payload.status = None THEN None
                        ELSE Some(payload.status),
             updated_at |-> IF impl = "handlers" THEN Some(Some(now)) ELSE None]
        res == UpdateTicket(d, ticket.id, active_ticket)
    IN  IF res.ok THEN Resp(res.val.db, 200, res.val.model)
        ELSE Resp(d, 500, NoBody)

\* the write of delete_ticket_by_id: DELETE FROM ticket WHERE id = ticket.id, which
\* is Ok also when no row is left to delete.  Whether a ticket with relations can
\* be deleted depends on the foreign key of ticket_tag (fk), which the handlers do
\* not show.
delete_ticket_write(d, ticket, fk) ==
    IF fk = "restrict" /\ \E r \in BagToSet(d.ticket_tag) : r.ticket_id = ticket.id
    THEN Resp(d, 500, NoBody)
    ELSE Resp(DeleteTicket(d, ticket.id), 204, NoBody)

----------------------------------------------------------------------------
(* handlers/tag.rs and routes/tag.rs *)

create_tag(d, now, h, ci, payload, impl) ==
    LET bearer == TypedHeaderBearer(h, ci)
    IN  IF ~bearer.ok THEN Resp(d, bearer.val, NoBody) ELSE
    LET claims == jwt_extract_claims(bearer.val, now)
    IN  IF ~claims.ok THEN Resp(d, 401, NoBody) ELSE
    LET stamp == IF impl = "handlers" THEN Some(now) ELSE DefaultTimestamp
        res == InsertTag(d, [name |-> payload.name, created_at |-> stamp,
                             updated_at |-> stamp])
    IN  IF res.ok THEN Resp(res.val.db, 200, res.val.model)
        ELSE Resp(d, 500, NoBody)

\* neither copy takes a TypedHeader or reads the Authorization header
get_tags(d) == Resp(d, 200, d.tags)

get_tag_by_id(d, id) ==
    LET found == FindTagById(d, id)
    IN  IF found = None THEN Resp(d, 404, NoBody) ELSE Resp(d, 200, found[1])

update_tag_by_id_EmptyIsOk(d, now, id, payload) ==
    LET existing == FindTagById(d, id)
    IN  IF existing = None THEN Resp(d, 404, NoBody) ELSE
        IF payload.name = None THEN Resp(d, 200, existing[1]) ELSE
    LET res == UpdateTag(d, id, [name |-> Some(payload.name[1]),
                                 updated_at |-> Some(Some(now))])
    IN  IF ~res.ok THEN Resp(d, 500, NoBody) ELSE
    LET updated_tag == FindTagById(res.val, id)
    IN  IF updated_tag = None THEN Resp(res.val, 500, NoBody)
        ELSE Resp(res.val, 200, updated_tag[1])

\* the two copies differ in the time zone in which updated_at is written
update_tag_by_id(d, now, id, payload) ==
    LET existing == FindTagById(d, id)
    IN  IF existing = None THEN Resp(d, 404, NoBody) ELSE
        IF payload.name = None THEN Resp(d, 400, NoBody) ELSE
    LET res == UpdateTag(d, id, [name |-> Some(payload.name[1]),
                                 updated_at |-> Some(Some(now))])
    IN  IF ~res.ok THEN Resp(d, 500, NoBody) ELSE
    LET updated_tag == FindTagById(res.val, id)
    IN  IF updated_tag = None THEN Resp(res.val, 500, NoBody)
        ELSE Resp(res.val, 200, updated_tag[1])

delete_tag_by_id(d, id) ==
    LET found == FindTagById(d, id)
    IN  IF found = None THEN Resp(d, 404, NoBody)
        ELSE Resp(DeleteTag(d, found[1].id), 204, NoBody)

----------------------------------------------------------------------------
(* handlers/relations.rs *)

attach_tag_AlwaysCreated(d, now, h, ci, ticket_id, tag_id) ==
    LET bearer == TypedHeaderBearer(h, ci)
    IN  IF ~bearer.ok THEN Resp(d, bearer.val, NoBody) ELSE
        IF ~jwt_extract_claims(bearer.val, now).ok THEN Resp(d, 401, NoBody) ELSE
    LET res == InsertTicketTag(d, [ticket_id |-> ticket_id, tag_id |-> tag_id])
    IN  IF res.ok THEN Resp(res.val.db, 201, NoBody)
        ELSE Resp(d, 201, NoBody)

attach_tag_ConflictIsServerError(d, now, h, ci, ticket_id, tag_id) ==
    LET bearer == TypedHeaderBearer(h, ci)
    IN  IF ~bearer.ok THEN Resp(d, bearer.val, NoBody) ELSE
        IF ~jwt_extract_claims(bearer.val, now).ok THEN Resp(d, 401, NoBody) ELSE
    LET res == InsertTicketTag(d, [ticket_id |-> ticket_id, tag_id |-> tag_id])
    IN  IF res.ok THEN Resp(res.val.db, 201, NoBody)
        ELSE Resp(d, 500, NoBody)

attach_tag(d, now, h, ci, ticket_id, tag_id) ==
    LET bearer == TypedHeaderBearer(h, ci)
    IN  IF ~bearer.ok THEN Resp(d, bearer.val, NoBody) ELSE
        IF ~jwt_extract_claims(bearer.val, now).ok THEN Resp(d, 401, NoBody) ELSE
    LET link == [ticket_id |-> ticket_id, tag_id |-> tag_id]
        res == InsertTicketTag(d, link)
    IN  IF res.ok THEN Resp(res.val.db, 201, NoBody)
        ELSE Resp(d, 409, NoBody)

detach_tag(d, ticket_id, tag_id) ==
    Resp(DeleteTicketTag(d, ticket_id, tag_id), 204, NoBody)

----------------------------------------------------------------------------
(* handlers/admin.rs *)

\* the orders in which n concurrent inserts (join_all) can draw their serial ids:
\* rank[i] is the position of the i-th insert of the list
Ranks(n) == {f \in [1..n -> 1..n] : \A i, j \in 1..n : i # j => f[i] # f[j]}

SeedUserRows_TwoAdmins(hashed) ==
    <<[email |-> "zoya@tagblaze.dev", password |-> hashed, role |-> "admin"],
      [email |-> "ankit@tagblaze.dev", password |-> hashed, role |-> "admin"],
      [email |-> "divya@tagblaze.dev", password |-> hashed, role |-> "agent"]>>

SeedUserRows(hashed) ==
    <<[email |-> "zoya@tagblaze.dev", password |-> hashed, role |-> "agent"],
      [email |-> "ankit@tagblaze.dev", password |-> hashed, role |-> "admin"],
      [email |-> "divya@tagblaze.dev", password |-> hashed, role |-> "agent"]>>

\* seed_users: returns the saved models in list order
seed_users(d, salt, rank) ==
    LET hashed == hash("devpass123", salt)
        rows == SeedUserRows(hashed)
        saved == [i \in 1..3 |->
                    [id |-> d.seq.user + rank[i] - 1, email |-> rows[i].email,
                     password |-> rows[i].password, role |-> rows[i].role]]
    IN  IF \E i \in 1..3 : \E u \in d.users : u.email = rows[i].email
        THEN Err("unique_violation")
        ELSE Ok([db |-> [d EXCEPT !.users = @ \cup {saved[i] : i \in 1..3},
                                  !.seq.user = @ + 3],
                 users |-> saved])

SeedTagNames == <<"Bug", "Feature", "Urgent">>

SeedTicketRows(users) ==
    <<[title |-> "Fix navbar overflow bug",
       description |-> Some("Navbar overlaps on mobile screens"),
       user_id |-> Some(users[1].id)],
      [title |-> "Add dark mode toggle",
       description |-> Some("Users should be able to switch themes"),
       user_id |-> Some(users[2].id)]>>

\* seed_tags_and_tickets: returns the counts (tags, tickets, relations)
seed_tags_and_tickets(d, now, users, rankTags, rankTickets) ==
    LET saved_tags == [i \in 1..3 |->
                        [id |-> d.seq.tag + rankTags[i] - 1, name |-> SeedTagNames[i],
                         created_at |-> Some(now), updated_at |-> Some(now)]]
        rows == SeedTicketRows(users)
        saved_tickets == [i \in 1..2 |->
                            [id |-> d.seq.ticket + rankTickets[i] - 1,
                             title |-> rows[i].title,
                             description |-> rows[i].description,
                             status |-> DefaultStatus,
                             user_id |-> rows[i].user_id,
                             created_at |-> Some(now), updated_at |-> Some(now)]]
        relations == {[ticket_id |-> saved_tickets[1].id, tag_id |-> saved_tags[1].id],
                      [ticket_id |-> saved_tickets[1].id, tag_id |-> saved_tags[3].id],
                      [ticket_id |-> saved_tickets[2].id, tag_id |-> saved_tags[2].id]}
    IN  IF \E r \in relations : BagIn(r, d.ticket_tag)
        THEN Err("unique_violation")
        ELSE Ok([db |-> [d EXCEPT !.tags = @ \cup {saved_tags[i] : i \in 1..3},
                                  !.seq.tag = @ + 3,
                                  !.tickets = @ \cup {saved_tickets[i] : i \in 1..2},
                                  !.seq.ticket = @ + 2,
                                  !.ticket_tag = @ (+) SetToBag(relations)],
                 counts |-> <<3, 2, Cardinality(relations)>>])

\* TRUNCATE "user", tag, ticket, ticket_tag RESTART IDENTITY CASCADE, then the seeds
reset_db(d, now, salt, rankUsers, rankTags, rankTickets) ==
    LET truncated == EmptyDb
        saved_users == seed_users(truncated, salt, rankUsers)
    IN  IF ~saved_users.ok
        THEN Resp(truncated, 500, [reset |-> FALSE, error |-> "users seeding error"])
        ELSE
    LET data == seed_tags_and_tickets(saved_users.val.db, now, saved_users.val.users,
                                      rankTags, rankTickets)
    IN  IF ~data.ok
        THEN Resp(saved_users.val.db, 500,
                  [reset |-> FALSE, error |-> "tags & tickets seeding error"])
        ELSE Resp(data.val.db, 200,
                  [reset |-> TRUE, users_seeded |-> Len(saved_users.val.users),
                   tags_seeded |-> data.val.counts[1],
                   tickets_seeded |-> data.val.counts[2],
                   relations_seeded |-> data.val.counts[3]])

\* reset_db when one statement fails: the TRUNCATE, or the k-th insert of a seeding
\* stage.  join_all drives every insert of the stage to its end, so the other rows
\* of the stage are stored; `?` then leaves the function, and the later stages do
\* not run.  Nothing is rolled back: no transaction is opened.
seed_users_failing(d, salt, rank, k) ==
    LET saved == seed_users(d, salt, rank).val.users
    IN  [d EXCEPT !.users = @ \cup {saved[i] : i \in (1..3) \ {k}},
                  !.seq.user = @ + 3]

seed_tags_and_tickets_failing(d, now, users, rankTags, rankTickets, stage, k) ==
    LET whole == seed_tags_and_tickets(d, now, users, rankTags, rankTickets).val.db
        \* the i-th row of each list, by the id it drew
        tag(i) == CHOOSE t \in whole.tags : t.id = d.seq.tag + rankTags[i] - 1
        ticket(i) == CHOOSE t \in whole.tickets : t.id = d.seq.ticket + rankTickets[i] - 1
        relation(i) == [ticket_id |-> ticket(IF i = 3 THEN 2 ELSE 1).id,
                        tag_id |-> tag(IF i = 1 THEN 1 ELSE IF i = 2 THEN 3 ELSE 2).id]
    IN  IF stage = "tags"
        THEN [d EXCEPT !.tags = @ \cup {tag(i) : i \in (1..3) \ {k}},
                       !.seq.tag = @ + 3]
        ELSE IF stage = "tickets"
        THEN [d EXCEPT !.tags = whole.tags, !.seq.tag = whole.seq.tag,
                       !.tickets = @ \cup {ticket(i) : i \in (1..2) \ {k}},
                       !.seq.ticket = @ + 2]
        ELSE [whole EXCEPT !.ticket_tag =
                            d.ticket_tag (+) SetToBag({relation(i) : i \in (1..3) \ {k}})]

reset_db_failing(d, now, salt, rankUsers, rankTags, rankTickets, stage, k) ==
    IF stage = "truncate"
    THEN Resp(d, 500, [reset |-> FALSE, error |-> "truncate error"])
    ELSE IF stage = "users"
    THEN Resp(seed_users_failing(EmptyDb, salt, rankUsers, k), 500,
              [reset |-> FALSE, error |-> "users seeding error"])
    ELSE LET saved_users == seed_users(EmptyDb, salt, rankUsers).val
         IN  Resp(seed_tags_and_tickets_failing(saved_users.db, now, saved_users.users,
                                                rankTags, rankTickets, stage, k),
                  500, [reset |-> FALSE, error |-> "tags & tickets seeding error"])

----------------------------------------------------------------------------
(* Requests: one action per endpoint *)

NoRequest == [op |-> "none", req |-> <<>>, status |-> 0, body |-> NoBody]

\* the connections on which requests are served concurrently, and a connection
\* with no request on it
Connections == 1..MaxConnections
Idle == [pc |-> "idle", hdr |-> NoHeader, ticket_id |-> 0, tag_id |-> 0, at |-> 0,
         status |-> 0]
NoFlights == [c \in Connections |-> Idle]

Done(op, req, r) ==
    /\ db' = r.db
    /\ pre' = db
    /\ last' = [op |-> op, req |-> req, status |-> r.status, body |-> r.body]
    /\ UNCHANGED <<clock, ticks, flight>>

\* time passes between requests
Tick(delta) ==
    /\ ticks < MaxTicks
    /\ clock' = clock + delta
    /\ ticks' = ticks + 1
    /\ pre' = db
    /\ last' = NoRequest
    /\ UNCHANGED <<db, issued, issuedTo, flight>>

Register(payload, salt) ==
    /\ db.seq.user <= MaxUserId
    /\ Done("register_user", payload, register_user(db, payload, salt))
    /\ UNCHANGED client

\* the client keeps the token it is given, up to MaxIssued tokens
Login(payload) ==
    LET r == login_user(db, payload, clock)
        keep == r.status = 200 /\ r.body.token \notin issued
                    /\ Cardinality(issued) < MaxIssued
    IN  /\ Done("login_user", payload, r)
        /\ issued' = IF keep THEN issued \cup {r.body.token} ELSE issued
        /\ issuedTo' = IF keep
                       THEN [t \in issued \cup {r.body.token} |->
                                IF t \in issued THEN issuedTo[t]
                                ELSE FindUserByEmail(db, payload.email)[1]]
                       ELSE issuedTo

\* a login during which the persistence layer fails at step fail
LoginFailing(payload, fail) ==
    /\ Done("login_user", [email |-> payload.email, password |-> payload.password,
                           fail |-> fail],
            login_user_failing(db, payload, clock, fail))
    /\ UNCHANGED client

Me(h) ==
    /\ Done("me", [hdr |-> h], me(db, h, clock))
    /\ UNCHANGED client

CreateTicket(h, ci, payload, impl) ==
    /\ db.seq.ticket <= MaxTicketId
    /\ Done("create_ticket", [hdr |-> h, payload |-> payload, impl |-> impl],
            create_ticket(db, clock, h, ci, payload, impl))
    /\ UNCHANGED client

GetTickets(h, ci) ==
    /\ Done("get_tickets", [hdr |-> h], get_tickets(db, clock, h, ci))
    /\ UNCHANGED client

GetTicketById(h, ci, id) ==
    /\ Done("get_ticket_by_id", [hdr |-> h, id |-> id],
            get_ticket_by_id(db, clock, h, ci, id))
    /\ UNCHANGED client

DeleteTicketById(h, ci, id) ==
    /\ Done("delete_ticket_by_id", [hdr |-> h, id |-> id],
            delete_ticket_by_id(db, clock, h, ci, id))
    /\ UNCHANGED client

UpdateTicketById(h, ci, id, payload, impl) ==
    /\ Done("update_ticket_by_id",
            [hdr |-> h, id |-> id, payload |-> payload, impl |-> impl],
            update_ticket_by_id(db, clock, h, ci, id, payload, impl))
    /\ UNCHANGED client

\* an update during which the persistence layer fails at step fail
UpdateTicketFailing(h, ci, id, payload, impl, fail) ==
    /\ Done("update_ticket_by_id",
            [hdr |-> h, id |-> id, payload |-> payload, impl |-> impl, fail |-> fail],
            update_ticket_by_id_failing(db, clock, h, ci, id, payload, impl, fail))
    /\ UNCHANGED client

CreateTag(h, ci, payload, impl) ==
    /\ db.seq.tag <= MaxTagId
    /\ Done("create_tag", [hdr |-> h, payload |-> payload, impl |-> impl],
            create_tag(db, clock, h, ci, payload, impl))
    /\ UNCHANGED client

\* the tag handlers below take no Authorization header; h is what the request
\* carries all the same
GetTags(h) ==
    /\ Done("get_tags", [hdr |-> h], get_tags(db))
    /\ UNCHANGED client

GetTagById(h, id) ==
    /\ Done("get_tag_by_id", [hdr |-> h, id |-> id], get_tag_by_id(db, id))
    /\ UNCHANGED client

UpdateTagById(h, id, payload) ==
    /\ Done("update_tag_by_id", [hdr |-> h, id |-> id, payload |-> payload],
            update_tag_by_id(db, clock, id, payload))
    /\ UNCHANGED client

DeleteTagById(h, id) ==
    /\ Done("delete_tag_by_id", [hdr |-> h, id |-> id], delete_tag_by_id(db, id))
    /\ UNCHANGED client

AttachTag(h, ci, ticket_id, tag_id) ==
    /\ Done("attach_tag", [hdr |-> h, ticket_id |-> ticket_id, tag_id |-> tag_id],
            attach_tag(db, clock, h, ci, ticket_id, tag_id))
    /\ UNCHANGED client

DetachTag(ticket_id, tag_id) ==
    /\ Done("detach_tag", [ticket_id |-> ticket_id, tag_id |-> tag_id],
            detach_tag(db, ticket_id, tag_id))
    /\ UNCHANGED client

\* attach_tag served on connection c, in two steps.  First the extractor and
\* extract_claims run, which read no table: a refused request is answered at once.
AttachArrive(c, h, ci, ticket_id, tag_id) ==
    LET bearer == TypedHeaderBearer(h, ci)
        status == IF ~bearer.ok THEN bearer.val
                  ELSE IF ~jwt_extract_claims(bearer.val, clock).ok THEN 401
                  ELSE 0
    IN  /\ flight[c].pc = "idle"
        /\ flight' = [flight EXCEPT ![c] =
                        [pc |-> IF status = 0 THEN "connected" ELSE "done",
                         hdr |-> h, ticket_id |-> ticket_id, tag_id |-> tag_id,
                         at |-> clock, status |-> status]]
        /\ UNCHANGED <<db, clock, ticks, issued, issuedTo, pre, last>>

\* then, after connect(), link.insert(&db) runs as one statement of the database
\* and its result is the response; requests on other connections may have been
\* served in between
AttachInsert(c) ==
    LET f == flight[c]
        r == attach_tag(db, f.at, f.hdr, FALSE, f.ticket_id, f.tag_id)
    IN  /\ f.pc = "connected"
        /\ db' = r.db
        /\ pre' = db
        /\ last' = [op |-> "attach_tag",
                    req |-> [hdr |-> f.hdr, ticket_id |-> f.ticket_id,
                             tag_id |-> f.tag_id],
                    status |-> r.status, body |-> r.body]
        /\ flight' = [flight EXCEPT ![c].pc = "done", ![c].status = r.status]
        /\ UNCHANGED <<clock, ticks, issued, issuedTo>>

\* update_ticket_by_id and delete_ticket_by_id served on connection c in two steps:
\* the reads and checks, then the write, with other requests served in between
IdleTicket == [pc |-> "idle", op |-> "none", hdr |-> NoHeader, id |-> 0,
               payload |-> None, impl |-> "none", caller |-> None, ticket |-> None,
               status |-> 0]

TicketCheck(c, op, h, ci, id, payload, impl) ==
    LET r == IF op = "update_ticket_by_id"
             THEN update_ticket_by_id(db, clock, h, ci, id, payload, impl)
             ELSE delete_ticket_by_id(db, clock, h, ci, id)
        passed == r.status \in {200, 204}
    IN  /\ flight[c].pc \in {"idle", "done"}
        /\ flight' = [flight EXCEPT ![c] =
                        [pc |-> IF passed THEN "checked" ELSE "done",
                         op |-> op, hdr |-> h, id |-> id, payload |-> Some(payload),
                         impl |-> impl,
                         caller |-> IF passed THEN FindUserByEmail(db, h.rest.sub)
                                    ELSE None,
                         ticket |-> IF passed THEN FindTicketById(db, id) ELSE None,
                         status |-> IF passed THEN 0 ELSE r.status]]
        /\ UNCHANGED <<db, clock, ticks, issued, issuedTo, pre, last>>

TicketWrite(c, fk) ==
    LET f == flight[c]
        r == IF f.op = "update_ticket_by_id"
             THEN update_ticket_write(db, clock, f.ticket[1], f.payload[1], f.impl)
             ELSE delete_ticket_write(db, f.ticket[1], fk)
    IN  /\ f.pc = "checked"
        /\ db' = r.db
        /\ pre' = db
        /\ last' = [op |-> f.op,
                    req |-> [hdr |-> f.hdr, id |-> f.id, payload |-> f.payload[1],
                             impl |-> f.impl, caller |-> f.caller[1]],
                    status |-> r.status, body |-> r.body]
        /\ flight' = [flight EXCEPT ![c].pc = "done", ![c].status = r.status]
        /\ UNCHANGED <<clock, ticks, issued, issuedTo>>

ResetDb(salt, rankUsers, rankTags, rankTickets) ==
    /\ Done("reset_db", <<>>,
            reset_db(db, clock, salt, rankUsers, rankTags, rankTickets))
    /\ UNCHANGED client

\* a reset during which the statement (stage, k) fails
ResetDbFailing(salt, rankUsers, rankTags, rankTickets, stage, k) ==
    /\ Done("reset_db", [fail |-> stage, row |-> k],
            reset_db_failing(db, clock, salt, rankUsers, rankTags, rankTickets, stage, k))
    /\ UNCHANGED client

----------------------------------------------------------------------------
(* What a client can put into a request *)

Subjects == {"a@x.com", "zoya@tagblaze.dev"}

\* signed by someone who does not know JWT_SECRET
ForgedTokens == {create_jwt(e, OtherSecret, clock) : e \in Subjects}

\* a token of the server whose payload was altered after signing
TamperedTokens ==
    ({[t EXCEPT !.sub = e] : t \in issued, e \in Subjects}
        \cup {[t EXCEPT !.exp = @ + TokenTTL] : t \in issued}) \ issued

PresentedTokens == issued \cup {Garbage} \cup ForgedTokens \cup TamperedTokens

Headers ==
    {NoHeader} \cup {Hdr("Bearer ", t) : t \in PresentedTokens}
        \cup {Hdr(p, t) : p \in {"bearer ", "Basic "}, t \in issued \cup {Garbage}}

\* the header on which the builds of the TypedHeader extractor differ
SchemeMatching(h) == IF h.pre = "bearer " THEN BOOLEAN ELSE {FALSE}

----------------------------------------------------------------------------
(* Specification of the token service and the guards: one user, one row   *)
(* per table, and a clock that steps around the expiry of a token.        *)

AuthTicks == {TokenTTL - 1, TokenTTL, TokenTTL + Leeway, TokenTTL + Leeway + 1}

AuthUser == [email |-> "a@x.com", password |-> "pw123", role |-> "agent"]
AuthTicket == [title |-> "T", description |-> None, status |-> None]
AuthPatch == [title |-> Some("U"), description |-> None, status |-> None]

InitAuth ==
    /\ db = EmptyDb
    /\ clock = StartTime
    /\ ticks = 0
    /\ issued = {}
    /\ issuedTo = <<>>
    /\ pre = EmptyDb
    /\ last = NoRequest
    /\ flight = NoFlights

\* the headers whose token the token service refuses
RefusedHeaders ==
    {h \in Headers : ~h.present \/ ~jwt_extract_claims(h.rest, clock).ok}

\* me, get_tickets and get_ticket_by_id are called with every header; the endpoints
\* that write are called with the refused ones
NextAuth ==
    \/ \E delta \in AuthTicks : Tick(delta)
    \/ Register(AuthUser, "salt1")
    \/ \E pw \in {"pw123", "wrong"} : Login([email |-> "a@x.com", password |-> pw])
    \/ \E h \in Headers : Me(h)
    \/ \E h \in Headers : \E ci \in SchemeMatching(h) : GetTickets(h, ci)
    \/ \E h \in Headers : \E ci \in SchemeMatching(h) : GetTicketById(h, ci, 1)
    \/ \E h \in RefusedHeaders : \E ci \in SchemeMatching(h) :
            CreateTicket(h, ci, AuthTicket, "routes")
    \/ \E h \in RefusedHeaders : \E ci \in SchemeMatching(h) :
            UpdateTicketById(h, ci, 1, AuthPatch, "routes")
    \/ \E h \in RefusedHeaders : \E ci \in SchemeMatching(h) : DeleteTicketById(h, ci, 1)
    \/ \E h \in RefusedHeaders : \E ci \in SchemeMatching(h) :
            CreateTag(h, ci, [name |-> "Bug"], "routes")
    \/ \E h \in RefusedHeaders : \E ci \in SchemeMatching(h) : AttachTag(h, ci, 1, 1)

SpecAuth == InitAuth /\ [][NextAuth]_vars

----------------------------------------------------------------------------
(* Specification of the ticket handlers: registration, login, the five    *)
(* ticket operations and the admin reset, over either an empty database   *)
(* or one that already holds a ticket without an owner (ticket.user_id is *)
(* nullable).                                                             *)

LegacyDb ==
    [users |-> {[id |-> 1, email |-> "ankit@tagblaze.dev",
                 password |-> hash("devpass123", "salt0"), role |-> "admin"],
                [id |-> 2, email |-> "zoya@tagblaze.dev",
                 password |-> hash("devpass123", "salt0"), role |-> "agent"]},
     tickets |-> {[id |-> 1, title |-> "Legacy", description |-> None,
                   status |-> Some("open"), user_id |-> None,
                   created_at |-> None, updated_at |-> None]},
     tags |-> {},
     ticket_tag |-> EmptyBag,
     seq |-> [user |-> 3, ticket |-> 2, tag |-> 1]]

Roles == {"admin", "agent"}
LoginEmails == Subjects
\* the ids a request addresses: every id a ticket can have, and one no ticket has
TicketIds == 1..(MaxTicketId + 1)

\* the orders of the seeding inserts the specification draws from
Identity(n) == [i \in 1..n |-> i]
Reverse(n) == [i \in 1..n |-> n + 1 - i]
SeedRanks(n) == {Identity(n), Reverse(n)}

\* the tokens the client holds
HeldHeaders == {Hdr("Bearer ", t) : t \in issued}
\* a held token, no header at all, or a malformed token
ConcHeaders == HeldHeaders \cup {NoHeader, Hdr("Bearer ", Garbage)}

Init ==
    /\ db \in {EmptyDb, LegacyDb}
    /\ clock = StartTime
    /\ ticks = 0
    /\ issued = {}
    /\ issuedTo = <<>>
    /\ pre = db
    /\ last = NoRequest
    /\ flight = NoFlights

Next ==
    \/ \E r \in Roles :
            Register([email |-> "a@x.com", password |-> "pw123", role |-> r], "salt1")
    \/ \E e \in LoginEmails, pw \in {"pw123", "devpass123"} :
            Login([email |-> e, password |-> pw])
    \/ \E ru \in SeedRanks(3) :
            ResetDb("salt2", ru, Identity(3), Identity(2))
    \/ \E h \in HeldHeaders : CreateTicket(h, FALSE, AuthTicket, "routes")
    \/ \E h \in HeldHeaders : GetTickets(h, FALSE)
    \/ \E h \in HeldHeaders, id \in TicketIds : GetTicketById(h, FALSE, id)
    \/ \E h \in HeldHeaders, id \in TicketIds :
            UpdateTicketById(h, FALSE, id, AuthPatch, "routes")
    \/ \E h \in HeldHeaders, id \in TicketIds : DeleteTicketById(h, FALSE, id)

Spec == Init /\ [][Next]_vars

----------------------------------------------------------------------------
(* Specification of the ticket-tag relations: attach, detach and the      *)
(* admin reset, with one registered user to authenticate the attach.      *)

RelTicketIds == {1, 2}
RelTagIds == {1, 2}

InitRel ==
    /\ db = EmptyDb
    /\ clock = StartTime
    /\ ticks = 0
    /\ issued = {}
    /\ issuedTo = <<>>
    /\ pre = EmptyDb
    /\ last = NoRequest
    /\ flight = NoFlights

NextRel ==
    \/ Register(AuthUser, "salt1")
    \/ Login([email |-> "a@x.com", password |-> "pw123"])
    \/ \E ru \in SeedRanks(3), rg \in SeedRanks(3), rt \in SeedRanks(2) :
            ResetDb("salt2", ru, rg, rt)
    \/ \E h \in HeldHeaders, ticket_id \in RelTicketIds, tag_id \in RelTagIds :
            AttachTag(h, FALSE, ticket_id, tag_id)
    \/ \E ticket_id \in RelTicketIds, tag_id \in RelTagIds :
            DetachTag(ticket_id, tag_id)

SpecRel == InitRel /\ [][NextRel]_vars

----------------------------------------------------------------------------
(* Specification of ticket creation and partial update: both copies of    *)
(* the handlers, payloads with and without each optional field, and a     *)
(* clock that moves between a creation and an update.  One agent, who     *)
(* creates one ticket and updates it any number of times.                 *)

Impls == {"handlers", "routes"}

TicketPayloads ==
    {AuthTicket, [title |-> "T2", description |-> Some("d"), status |-> Some("closed")]}

Patches ==
    {[title |-> None, description |-> None, status |-> None],
     AuthPatch,
     [title |-> None, description |-> Some("e"), status |-> Some("done")]}

\* the user the token of h names owns no ticket yet
OwnsNone(h) ==
    \A u \in db.users : u.email = h.rest.sub =>
        \A t \in db.tickets : t.user_id # Some(u.id)

InitEdit ==
    /\ db \in {EmptyDb, LegacyDb}
    /\ clock = StartTime
    /\ ticks = 0
    /\ issued = {}
    /\ issuedTo = <<>>
    /\ pre = db
    /\ last = NoRequest
    /\ flight = NoFlights

NextEdit ==
    \/ Tick(1)
    \/ Register(AuthUser, "salt1")
    \/ Login([email |-> "a@x.com", password |-> "pw123"])
    \/ \E h \in HeldHeaders, payload \in TicketPayloads, impl \in Impls :
            OwnsNone(h) /\ CreateTicket(h, FALSE, payload, impl)
    \/ \E h \in HeldHeaders, id \in TicketIds, payload \in Patches, impl \in Impls :
            UpdateTicketById(h, FALSE, id, payload, impl)
    \/ \E h \in HeldHeaders : GetTickets(h, FALSE)

SpecEdit == InitEdit /\ [][NextEdit]_vars

----------------------------------------------------------------------------
(* Specification of the tag handlers: one registered user, and requests   *)
(* to /tags and /tags/{id} with a held token, a malformed one, or none.   *)
(* No ticket-tag relation is stored, so deleting a tag touches no other   *)
(* table.                                                                 *)

\* every id a tag can have, and one no tag has
TagIds == 1..(MaxTagId + 1)

TagPatches == {[name |-> None], [name |-> Some("Urgent")]}

InitTag ==
    /\ db = EmptyDb
    /\ clock = StartTime
    /\ ticks = 0
    /\ issued = {}
    /\ issuedTo = <<>>
    /\ pre = EmptyDb
    /\ last = NoRequest
    /\ flight = NoFlights

NextTag ==
    \/ Register(AuthUser, "salt1")
    \/ Login([email |-> "a@x.com", password |-> "pw123"])
    \/ \E h \in ConcHeaders, impl \in Impls : CreateTag(h, FALSE, [name |-> "Bug"], impl)
    \/ \E h \in ConcHeaders : GetTags(h)
    \/ \E h \in ConcHeaders, id \in TagIds : GetTagById(h, id)
    \/ \E h \in ConcHeaders, id \in TagIds, payload \in TagPatches :
            UpdateTagById(h, id, payload)
    \/ \E h \in ConcHeaders, id \in TagIds : DeleteTagById(h, id)

SpecTag == InitTag /\ [][NextTag]_vars

----------------------------------------------------------------------------
(* Specification of the first-use scenario: a client registers as agent,  *)
(* logs in with the same credentials, creates a ticket with the token it  *)
(* was given and lists its tickets, each request following the successful *)
(* answer to the one before.  After time has passed another client may    *)
(* start the same scenario.                                               *)

ScenarioEmails == {"a@x.com", "b@x.com", "c@x.com"}
ScenarioPasswords == {"pw123", "s3cret"}
ScenarioTitles == {"T", "T2"}

InitScenario ==
    /\ db \in {EmptyDb, LegacyDb}
    /\ clock = StartTime
    /\ ticks = 0
    /\ issued = {}
    /\ issuedTo = <<>>
    /\ pre = db
    /\ last = NoRequest
    /\ flight = NoFlights

NextScenario ==
    \/ Tick(1)
    \/ \E e \in ScenarioEmails, p \in ScenarioPasswords :
            /\ last.op = "none"
            /\ Register([email |-> e, password |-> p, role |-> "agent"], "salt1")
    \/ /\ last.op = "register_user" /\ last.status = 201
       /\ Login([email |-> last.req.email, password |-> last.req.password])
    \/ \E title \in ScenarioTitles, impl \in Impls :
            /\ last.op = "login_user" /\ last.status = 200
            /\ CreateTicket(Hdr("Bearer ", last.body.token), FALSE,
                            [title |-> title, description |-> None, status |-> None],
                            impl)
    \/ /\ last.op = "create_ticket" /\ last.status = 200
       /\ GetTickets(last.req.hdr, FALSE)

SpecScenario == InitScenario /\ [][NextScenario]_vars

----------------------------------------------------------------------------
(* Specification of login: registrations, the admin reset, and logins     *)
(* with known and unknown emails and right and wrong passwords, over an   *)
(* empty user table, one holding users, or one holding a row written by   *)
(* another program whose password column (a string) is not a digest of    *)
(* the hasher.                                                            *)

ImportedDb ==
    [EmptyDb EXCEPT
        !.users = {[id |-> 1, email |-> "old@x.com",
                    password |-> [wf |-> FALSE, plain |-> "devpass123", salt |-> ""],
                    role |-> "agent"]},
        !.seq.user = 2]

LoginPasswords == {"pw123", "devpass123"}
AllEmails == {"a@x.com", "zoya@tagblaze.dev", "old@x.com", "nobody@x.com"}

InitLogin ==
    /\ db \in {EmptyDb, LegacyDb, ImportedDb}
    /\ clock = StartTime
    /\ ticks = 0
    /\ issued = {}
    /\ issuedTo = <<>>
    /\ pre = db
    /\ last = NoRequest
    /\ flight = NoFlights

NextLogin ==
    \/ Tick(1)
    \/ \E p \in LoginPasswords, r \in Roles :
            Register([email |-> "a@x.com", password |-> p, role |-> r], "salt1")
    \/ \E e \in AllEmails, p \in LoginPasswords : Login([email |-> e, password |-> p])
    \/ ResetDb("salt2", Identity(3), Identity(3), Identity(2))

SpecLogin == InitLogin /\ [][NextLogin]_vars

----------------------------------------------------------------------------
(* Specification of persistence failures: logins and ticket updates       *)
(* during which the connection or one statement of the handler fails.     *)

LoginFailSteps == {"connect", "find_user"}
UpdateFailSteps == {"connect", "find_user", "find_ticket", "update"}

InitFault ==
    /\ db \in {EmptyDb, LegacyDb}
    /\ clock = StartTime
    /\ ticks = 0
    /\ issued = {}
    /\ issuedTo = <<>>
    /\ pre = db
    /\ last = NoRequest
    /\ flight = NoFlights

NextFault ==
    \/ \E r \in Roles :
            Register([email |-> "a@x.com", password |-> "pw123", role |-> r], "salt1")
    \/ Login([email |-> "a@x.com", password |-> "pw123"])
    \/ \E h \in HeldHeaders : CreateTicket(h, FALSE, AuthTicket, "routes")
    \/ \E e \in LoginEmails, p \in LoginPasswords, fail \in LoginFailSteps :
            LoginFailing([email |-> e, password |-> p], fail)
    \/ \E h \in ConcHeaders, id \in TicketIds, impl \in Impls, fail \in UpdateFailSteps :
            UpdateTicketFailing(h, FALSE, id, AuthPatch, impl, fail)

SpecFault == InitFault /\ [][NextFault]_vars

----------------------------------------------------------------------------
(* Specification of registration and the admin reset: registrations with  *)
(* any role string, and resets that succeed or fail at one of their       *)
(* statements, over an empty database or one holding rows already.        *)

RoleStrings == Roles \cup {"owner"}

\* the statements of reset_db that can fail: the TRUNCATE and each insert
ResetStatements ==
    {<<"truncate", 1>>} \cup {<<"users", k>> : k \in 1..3} \cup {<<"tags", k>> : k \in 1..3}
        \cup {<<"tickets", k>> : k \in 1..2} \cup {<<"relations", k>> : k \in 1..3}

InitAdmin ==
    /\ db \in {EmptyDb, LegacyDb, ImportedDb}
    /\ clock = StartTime
    /\ ticks = 0
    /\ issued = {}
    /\ issuedTo = <<>>
    /\ pre = db
    /\ last = NoRequest
    /\ flight = NoFlights

NextAdmin ==
    \/ \E r \in RoleStrings :
            Register([email |-> "a@x.com", password |-> "pw123", role |-> r], "salt1")
    \/ \E ru \in SeedRanks(3), rg \in SeedRanks(3), rt \in SeedRanks(2) :
            ResetDb("salt2", ru, rg, rt)
    \/ \E ru \in SeedRanks(3), rt \in SeedRanks(2), f \in ResetStatements :
            ResetDbFailing("salt2", ru, Identity(3), rt, f[1], f[2])

SpecAdmin == InitAdmin /\ [][NextAdmin]_vars

----------------------------------------------------------------------------
(* Specification of concurrent attach requests: one registered user, and   *)
(* attach_tag requests served on several connections at once, each         *)
(* authenticated on arrival and inserting at any later moment.             *)

InitConc ==
    /\ db = EmptyDb
    /\ clock = StartTime
    /\ ticks = 0
    /\ issued = {}
    /\ issuedTo = <<>>
    /\ pre = EmptyDb
    /\ last = NoRequest
    /\ flight = NoFlights

NextConc ==
    \/ Register(AuthUser, "salt1")
    \/ Login([email |-> "a@x.com", password |-> "pw123"])
    \/ \E c \in Connections, h \in ConcHeaders, tag_id \in RelTagIds :
            AttachArrive(c, h, FALSE, 1, tag_id)
    \/ \E c \in Connections : AttachInsert(c)

SpecConc == InitConc /\ [][NextConc]_vars

----------------------------------------------------------------------------
(* Specification of a ticket write racing with other requests: an agent's  *)
(* update or delete is served in two steps on one connection, and          *)
(* registrations, logins, creations and the admin reset are served         *)
(* between them.                                                           *)

RaceConnections == {1}
ForeignKeys == {"none", "restrict"}

InitRace ==
    /\ db = EmptyDb
    /\ clock = StartTime
    /\ ticks = 0
    /\ issued = {}
    /\ issuedTo = <<>>
    /\ pre = EmptyDb
    /\ last = NoRequest
    /\ flight = [c \in Connections |-> IdleTicket]

NextRace ==
    \/ Register(AuthUser, "salt1")
    \/ Login([email |-> "a@x.com", password |-> "pw123"])
    \/ \E h \in HeldHeaders : CreateTicket(h, FALSE, AuthTicket, "routes")
    \/ \E ru \in SeedRanks(3) : ResetDb("salt2", ru, Identity(3), Identity(2))
    \/ \E c \in RaceConnections, h \in HeldHeaders, id \in TicketIds, impl \in Impls,
          op \in {"update_ticket_by_id", "delete_ticket_by_id"} :
            TicketCheck(c, op, h, FALSE, id, AuthPatch, impl)
    \/ \E c \in RaceConnections, fk \in ForeignKeys : TicketWrite(c, fk)

SpecRace == InitRace /\ [][NextRace]_vars

----------------------------------------------------------------------------
(* Observations on the last request *)

BearerProtected ==
    {"me", "create_ticket", "get_tickets", "get_ticket_by_id", "update_ticket_by_id",
     "delete_ticket_by_id", "create_tag", "attach_tag"}

\* the token a request carries, if any: what follows "Bearer "
CarriedToken(h) == IF h.present /\ h.pre = "Bearer " THEN Some(h.rest) ELSE None

WellSigned(t) == t.wf /\ t.sig = Sign(JWT_SECRET, t.sub, t.exp)

\* the request was answered as coming from an authenticated caller
AnsweredAsAuthenticated ==
    /\ last.op \in BearerProtected
    /\ IF last.op = "me" THEN last.body[1] = "Logged in as"
       ELSE last.status \notin {400, 401}

----------------------------------------------------------------------------
(* Claims on the token service and the guards, under SpecAuth *)

\* C3: every bearer-protected endpoint answers a request whose token is missing,
\* malformed, wrongly signed or expired with 401, and with no other status.
C3_BadTokenIs401 ==
    last.op \in BearerProtected =>
        LET t == CarriedToken(last.req.hdr)
        IN  (t = None \/ ~WellSigned(t[1]) \/ t[1].exp <= clock) => last.status = 401

C5_IssueValidateRoundTrip ==
    (last.op = "login_user" /\ last.status = 200) =>
        LET token == last.body.token
            claims == [sub |-> last.req.email, exp |-> clock + 24 * 3600]
        IN  /\ [sub |-> token.sub, exp |-> token.exp] = claims
            /\ jwt_extract_claims(token, clock) = Ok(claims)
            /\ auth_extract_claims(Hdr("Bearer ", token), clock) = Ok(claims)

C5_Witness ==
    /\ last.op = "login_user"
    /\ last.status = 200
    /\ last.body.token.sub = "a@x.com"
    /\ clock > StartTime

\* C6: for every token and every clock value now >= exp, both extract_claims
\* return Unauthenticated: no request carrying such a token is answered as
\* authenticated.
C6_RejectedFromExpiryOn ==
    last.op \in BearerProtected =>
        LET t == CarriedToken(last.req.hdr)
        IN  (t # None /\ clock >= t[1].exp) =>
                /\ jwt_extract_claims(t[1], clock) = Err(401)
                /\ auth_extract_claims(last.req.hdr, clock) = Err(401)
                /\ ~AnsweredAsAuthenticated

\* C7: a token signed with another secret, or altered after signing, is refused by
\* both validations, and every request answered as authenticated carried a token
\* that login_user issued.
C7_OnlyIssuedTokensAuthenticate ==
    /\ \A t \in ForgedTokens \cup TamperedTokens :
            /\ jwt_extract_claims(t, clock) = Err(401)
            /\ auth_extract_claims(Hdr("Bearer ", t), clock) = Err(401)
    /\ AnsweredAsAuthenticated => last.req.hdr.rest \in issued

\* a token of the server with its subject altered was presented and refused
C7_Witness ==
    /\ last.op = "get_tickets"
    /\ last.req.hdr.pre = "Bearer "
    /\ last.req.hdr.rest \in TamperedTokens
    /\ last.req.hdr.rest.exp > clock
    /\ last.status = 401

----------------------------------------------------------------------------
(* Claims on the ticket handlers, under Spec *)

ByIdOps == {"get_ticket_by_id", "update_ticket_by_id", "delete_ticket_by_id"}
TicketOps == ByIdOps \cup {"create_ticket", "get_tickets"}

\* the claims of the valid token the last request carried, if it carried one
ValidClaims ==
    LET t == CarriedToken(last.req.hdr)
    IN  IF t # None /\ WellSigned(t[1]) /\ jwt_extract_claims(t[1], clock).ok
        THEN Some([sub |-> t[1].sub, exp |-> t[1].exp]) ELSE None

\* the users stored under the subject, and the tickets stored under the id
\* addressed, when the last request arrived
Callers == IF ValidClaims = None THEN {}
           ELSE {u \in pre.users : u.email = ValidClaims[1].sub}
Addressed == {t \in pre.tickets : t.id = last.req.id}

SuccessStatus(op) == IF op = "delete_ticket_by_id" THEN 204 ELSE 200

\* C1: for an existing ticket T and a valid token resolving to a stored user U, get,
\* update and delete by id succeed iff U is admin or T.user_id = Some(U.id), and
\* return 403 otherwise; a ticket without owner is accessible only to admins.
C1_OwnerOrAdmin ==
    last.op \in ByIdOps =>
        \A u \in Callers, t \in Addressed :
            IF u.role = "admin" \/ (t.user_id # None /\ t.user_id[1] = u.id)
            THEN last.status = SuccessStatus(last.op)
            ELSE last.status = 403 /\ db = pre

\* an agent was refused the deletion of a ticket that has no owner
C1_Witness ==
    /\ last.op = "delete_ticket_by_id"
    /\ last.status = 403
    /\ \E u \in Callers : u.role = "agent"
    /\ \E t \in Addressed : t.user_id = None

\* C2: get_tickets with a valid token resolving to user U returns exactly all stored
\* tickets when U is admin, and exactly the tickets with user_id = Some(U.id)
\* otherwise.
C2_ListIsRoleFiltered ==
    last.op = "get_tickets" =>
        \A u \in Callers :
            /\ last.status = 200
            /\ last.body = IF u.role = "admin" THEN pre.tickets
                           ELSE {t \in pre.tickets :
                                    t.user_id # None /\ t.user_id[1] = u.id}

\* an agent received its own ticket and not the ticket of another user
C2_Witness ==
    /\ last.op = "get_tickets"
    /\ last.status = 200
    /\ \E u \in Callers : u.role = "agent"
    /\ last.body # {}
    /\ \E t \in pre.tickets : t \notin last.body /\ t.user_id # None

\* C8: a ticket operation with a valid token whose subject matches no stored user
\* returns 401, whether or not the addressed ticket exists.
C8_UnknownSubjectIs401 ==
    (last.op \in TicketOps /\ ValidClaims # None /\ Callers = {}) => last.status = 401

\* C9: an authorization decision uses the role and the id stored under the token's
\* subject when the request arrives, whatever record the token was issued to: no
\* record means 401, and otherwise the owner-or-admin rule is applied to it.
C9_CurrentRecordDecides ==
    (last.op \in {"update_ticket_by_id", "delete_ticket_by_id", "get_tickets"}
        /\ ValidClaims # None) =>
        LET token == last.req.hdr.rest
            stored == {u \in pre.users : u.email = token.sub}
        IN  /\ stored = {} => last.status = 401
            /\ \A u \in stored :
                IF last.op = "get_tickets"
                THEN \A t \in pre.tickets :
                        t \in last.body <=> (u.role = "admin" \/ t.user_id = Some(u.id))
                ELSE \A t \in Addressed :
                        last.status = 403 <=>
                            ~(u.role = "admin" \/ t.user_id = Some(u.id))

\* a token issued to an admin is refused on another user's ticket once the record
\* stored under its subject is an agent with another id
C9_Witness ==
    /\ last.op = "update_ticket_by_id"
    /\ last.status = 403
    /\ ValidClaims # None
    /\ last.req.hdr.rest \in issued
    /\ issuedTo[last.req.hdr.rest].role = "admin"
    /\ \E u \in Callers :
            u.role = "agent" /\ u.id # issuedTo[last.req.hdr.rest].id

\* C25: an update or delete by id answered 401, 403 or 404 leaves the ticket table,
\* and every other table, exactly as it was when the request arrived.
C25_RefusalWritesNothing ==
    (last.op \in {"update_ticket_by_id", "delete_ticket_by_id"}
        /\ last.status \in {401, 403, 404}) =>
        /\ db.tickets = pre.tickets
        /\ db = pre

\* an agent's update of a stored ticket of another user was answered 403
C25_Witness ==
    /\ last.op = "update_ticket_by_id"
    /\ last.status = 403
    /\ \E u \in Callers : u.role = "agent"
    /\ \E t \in Addressed : t.user_id # None /\ t.title # last.req.payload.title[1]

----------------------------------------------------------------------------
(* Claims on ticket creation and update, under SpecEdit *)

\* the value of an optional payload field, or the stored value when it is absent
Patched(field, stored) == IF field = None THEN stored ELSE field[1]

\* C13: a successful update sets, of title, description and status, exactly the
\* fields present in the payload to the supplied values and keeps the stored value
\* of every absent one; the ticket's id, user_id and created_at, every other ticket
\* and every other table are as before.
C13_PartialUpdate ==
    (last.op = "update_ticket_by_id" /\ last.status = 200) =>
        LET p == last.req.payload
        IN  \E old \in pre.tickets, new \in db.tickets :
                /\ old.id = last.req.id /\ new.id = old.id
                /\ new.title = Patched(p.title, old.title)
                /\ new.description = (IF p.description = None THEN old.description
                                      ELSE p.description)
                /\ new.status = (IF p.status = None THEN old.status ELSE p.status)
                /\ new.user_id = old.user_id
                /\ new.created_at = old.created_at
                /\ db.tickets \ {new} = pre.tickets \ {old}
                /\ db = [pre EXCEPT !.tickets = db.tickets]
                /\ last.body = new

\* a payload with description and status but no title was applied to a ticket
\* while another ticket was stored
C13_Witness ==
    /\ last.op = "update_ticket_by_id"
    /\ last.status = 200
    /\ last.req.payload.title = None
    /\ last.req.payload.status = Some("done")
    /\ \E t \in db.tickets :
            t.id = last.req.id /\ t.status = Some("done") /\ t.title = "T2"
    /\ \E t \in db.tickets : t.id # last.req.id

\* C14: every successful update through the handler routed at PUT /tickets/{id}
\* sets the ticket's updated_at to the time of the request, also when the payload
\* has no field.
C14_UpdatedAtRefreshed ==
    (last.op = "update_ticket_by_id" /\ last.req.impl = "routes" /\ last.status = 200) =>
        \A t \in db.tickets : t.id = last.req.id => t.updated_at = Some(clock)

\* C17: create_ticket with a valid token resolving to user U inserts exactly one
\* new ticket, owned by U, with the payload's title and description and with the
\* payload's status or "open"; every stored ticket and every other table is as
\* before.
C17_CreateOwnedByCaller ==
    (last.op = "create_ticket" /\ ValidClaims # None) =>
        \A u \in Callers :
            /\ last.status = 200
            /\ \E new \in db.tickets :
                    /\ new \notin pre.tickets
                    /\ \A t \in pre.tickets : t.id # new.id
                    /\ db.tickets = pre.tickets \cup {new}
                    /\ new.user_id = Some(u.id)
                    /\ new.title = last.req.payload.title
                    /\ new.description = last.req.payload.description
                    /\ new.status = Some(Patched(last.req.payload.status, "open"))
                    /\ last.body = new
            /\ db = [pre EXCEPT !.tickets = db.tickets, !.seq.ticket = db.seq.ticket]

\* a payload without status was stored as an open ticket of the caller next to a
\* ticket that was already there
C17_Witness ==
    /\ last.op = "create_ticket"
    /\ last.status = 200
    /\ last.req.payload.status = None
    /\ pre.tickets # {}
    /\ \E u \in Callers : \E t \in db.tickets \ pre.tickets :
            t.user_id = Some(u.id) /\ t.status = Some("open")

----------------------------------------------------------------------------
(* Claims on the first-use scenario, under SpecScenario *)

\* C18: in the sequence register (e, p, agent), login (e, p), create a ticket titled
\* T with the returned token, list with the same token: login returns a token whose
\* subject is e, the ticket created is titled T and owned by the registered user,
\* and the list is exactly that one ticket.
C18_FirstUseScenario ==
    /\ last.op = "login_user" =>
            /\ last.status = 200
            /\ last.body.token.sub = last.req.email
            /\ \E u \in db.users : u.email = last.req.email /\ u.role = "agent"
    /\ last.op = "create_ticket" =>
            /\ last.status = 200
            /\ last.body.title = last.req.payload.title
            /\ last.body.id = pre.seq.ticket
            /\ \A u \in Callers : last.body.user_id = Some(u.id)
    /\ last.op = "get_tickets" =>
            /\ last.status = 200
            /\ Callers # {}
            /\ \A u \in Callers :
                    \E t \in db.tickets :
                        /\ last.body = {t}
                        /\ t.id = db.seq.ticket - 1
                        /\ t.title \in ScenarioTitles
                        /\ t.user_id = Some(u.id)
                        /\ u.email = last.req.hdr.rest.sub

\* after time has passed a client ran the scenario and listed its one ticket while
\* another ticket was stored
C18_Witness ==
    /\ last.op = "get_tickets"
    /\ last.status = 200
    /\ Cardinality(last.body) = 1
    /\ Cardinality(db.tickets) = 2
    /\ clock > StartTime
    /\ \A t \in last.body : t.title = "T"

----------------------------------------------------------------------------
(* Claims on login, under SpecLogin *)

\* what a caller sees of a response
Seen(r) == [status |-> r.status, body |-> r.body]

\* the login fails for the email being unknown, or for the password not matching
\* the stored digest
UnknownEmail(d, payload) == FindUserByEmail(d, payload.email) = None
WrongPassword(d, payload) ==
    \E u \in d.users :
        u.email = payload.email /\ verify(payload.password, u.password) = Ok(FALSE)

\* C19: login returns a token iff a user with the email is stored and the password
\* verifies against the stored digest; a login with an unknown email and one with a
\* known email and a wrong password get the same response, 401 without body.
C19_LoginFailuresAlike ==
    /\ last.op = "login_user" =>
            /\ last.status = 200 <=>
                    \E u \in pre.users :
                        /\ u.email = last.req.email
                        /\ verify(last.req.password, u.password) = Ok(TRUE)
            /\ last.status = 200 => last.body.token.sub = last.req.email
            /\ (UnknownEmail(pre, last.req) \/ WrongPassword(pre, last.req)) =>
                    last.status = 401 /\ last.body = NoBody
    /\ \A e1, e2 \in AllEmails, p1, p2 \in LoginPasswords :
            LET unknown == [email |-> e1, password |-> p1]
                wrong == [email |-> e2, password |-> p2]
            IN  (UnknownEmail(db, unknown) /\ WrongPassword(db, wrong)) =>
                    Seen(login_user(db, unknown, clock)) = Seen(login_user(db, wrong, clock))

\* a login with a wrong password for a registered email was refused while another
\* email was unknown
C19_Witness ==
    /\ last.op = "login_user"
    /\ last.status = 401
    /\ last.req.email = "a@x.com"
    /\ WrongPassword(pre, last.req)
    /\ \E e \in AllEmails : UnknownEmail(db, [email |-> e])

\* C20: a login that meets a stored digest the hasher cannot parse is treated as
\* not matching: it is answered 401 and the handler does not panic.
C20_MalformedDigestIsNoMatch ==
    (last.op = "login_user"
        /\ \E u \in pre.users : u.email = last.req.email /\ ~verify(last.req.password, u.password).ok)
        => last.status = 401 /\ last.body # "panic"

----------------------------------------------------------------------------
(* Claims on persistence failures, under SpecFault *)

\* the step at which the persistence layer failed was reached by the handler
FailureMet ==
    /\ last.op \in {"login_user", "update_ticket_by_id"}
    /\ "fail" \in DOMAIN last.req
    /\ IF last.op = "login_user" THEN TRUE
       ELSE LET ok == update_ticket_by_id(pre, clock, last.req.hdr, FALSE, last.req.id,
                                          last.req.payload, last.req.impl).status
            IN  CASE last.req.fail = "connect" -> ok # 400
                  [] last.req.fail = "find_user" -> ok \notin {400} /\ ValidClaims # None
                  [] last.req.fail = "find_ticket" -> ValidClaims # None /\ Callers # {}
                  [] OTHER -> ok = 200

\* C21: a failure of the persistence layer at any step of a handler is answered
\* with 500, never with a panic of the handler.
C21_FailuresAre500 ==
    FailureMet => last.status = 500 /\ last.body # "panic"

----------------------------------------------------------------------------
(* Claims on registration and the admin reset, under SpecAdmin *)

\* C22: every stored user's role is agent or admin, whatever role string a
\* registration carries and whatever the seeding stores.
C22_RolesAreAgentOrAdmin ==
    \A u \in db.users : u.role \in {"agent", "admin"}

\* C23: after a reset answered 200, whatever was stored before, the database holds
\* exactly the seed: 3 users (one admin, two agents, one digest of the seed password),
\* 3 tags, 2 tickets each owned by a seed user, 3 relations each joining a seed
\* ticket to a seed tag; the summary reports 3, 3, 2, 3.
C23_ResetSeedsExactly ==
    (last.op = "reset_db" /\ last.status = 200) =>
        /\ Cardinality(db.users) = 3
        /\ Cardinality({u.id : u \in db.users}) = 3
        /\ Cardinality({u \in db.users : u.role = "admin"}) = 1
        /\ Cardinality({u \in db.users : u.role = "agent"}) = 2
        /\ Cardinality({u.password : u \in db.users}) = 1
        /\ \A u \in db.users : verify("devpass123", u.password) = Ok(TRUE)
        /\ Cardinality(db.tags) = 3
        /\ Cardinality({t.id : t \in db.tags}) = 3
        /\ Cardinality(db.tickets) = 2
        /\ Cardinality({t.id : t \in db.tickets}) = 2
        /\ \A t \in db.tickets : \E u \in db.users : t.user_id = Some(u.id)
        /\ BagCardinality(db.ticket_tag) = 3
        /\ Cardinality(BagToSet(db.ticket_tag)) = 3
        /\ \A r \in BagToSet(db.ticket_tag) :
                /\ \E t \in db.tickets : t.id = r.ticket_id
                /\ \E g \in db.tags : g.id = r.tag_id
        /\ last.body = [reset |-> TRUE, users_seeded |-> 3, tags_seeded |-> 3,
                         tickets_seeded |-> 2, relations_seeded |-> 3]

\* a database holding a registered user, tickets, tags and relations was reset,
\* the seed users drawing their ids in reverse order
C23_Witness ==
    /\ last.op = "reset_db"
    /\ last.status = 200
    /\ \E u \in pre.users : u.email = "a@x.com"
    /\ pre.tickets # {} /\ pre.tags # {} /\ pre.ticket_tag # EmptyBag
    /\ \E u \in db.users : u.email = "zoya@tagblaze.dev" /\ u.id = 3

\* the label db_error_response gives the failed stage
StageLabel(stage) ==
    IF stage = "users" THEN "users seeding error" ELSE "tags & tickets seeding error"

\* C24: when a seeding stage fails after the truncation, the response is a 500 that
\* names the failed stage and states how many entities the stages before it seeded,
\* and the truncation and the rows of the earlier stages stay.
C24_SeedFailureReport ==
    (last.op = "reset_db" /\ "fail" \in DOMAIN last.req /\ last.req.fail # "truncate") =>
        /\ last.status = 500
        /\ last.body.error = StageLabel(last.req.fail)
        /\ \A u \in db.users : u.email # "a@x.com"
        /\ last.req.fail # "users" =>
                /\ Cardinality(db.users) = 3
                /\ "users_seeded" \in DOMAIN last.body
                /\ last.body.users_seeded = 3

----------------------------------------------------------------------------
(* Claims on the tag handlers, under SpecTag *)

\* C15: update_tag_by_id returns 404 when no tag has the id, whatever the payload,
\* and 400 when the tag exists and the payload has no name, storing nothing in both
\* cases; with a name it sets that tag's name and updated_at, nothing else, and
\* returns the updated tag.
C15_TagUpdateOutcomes ==
    last.op = "update_tag_by_id" =>
        LET stored == {t \in pre.tags : t.id = last.req.id}
            name == last.req.payload.name
        IN  IF stored = {} THEN last.status = 404 /\ db = pre
            ELSE IF name = None THEN last.status = 400 /\ db = pre
            ELSE /\ last.status = 200
                 /\ \E old \in stored :
                        LET new == [old EXCEPT !.name = name[1],
                                               !.updated_at = Some(clock)]
                        IN  /\ db.tags = (pre.tags \ {old}) \cup {new}
                            /\ last.body = new
                 /\ db = [pre EXCEPT !.tags = db.tags]

\* one of two stored tags was renamed
C15_Witness ==
    /\ last.op = "update_tag_by_id"
    /\ last.status = 200
    /\ \E t \in db.tags : t.id = last.req.id /\ t.name = "Urgent"
    /\ \E t \in pre.tags : t.id = last.req.id /\ t.name = "Bug"
    /\ \E t \in db.tags : t.id # last.req.id /\ t \in pre.tags

\* C16: a request to create or to update a tag that carries no valid token is
\* rejected (at the latest for the tag not existing) and leaves the tag table as
\* it was; reading and deleting tags is served without a token.
C16_TagWritesNeedToken ==
    /\ (last.op \in {"create_tag", "update_tag_by_id"} /\ ValidClaims = None) =>
            last.status \in {400, 401, 404} /\ db.tags = pre.tags
    /\ (last.op \in {"get_tags", "get_tag_by_id", "delete_tag_by_id"}
            /\ ValidClaims = None) => last.status \in {200, 204, 404}

----------------------------------------------------------------------------
(* Claims on the ticket-tag relations, under SpecRel *)

Pair(req) == [ticket_id |-> req.ticket_id, tag_id |-> req.tag_id]

\* C10: the ticket_tag table holds at most one row per (ticket_id, tag_id) pair;
\* attaching an absent pair returns 201 and adds exactly that row, attaching a
\* present pair returns 409 and leaves the table unchanged.
C10_OneRowPerPair ==
    /\ \A r \in BagToSet(db.ticket_tag) : CopiesIn(r, db.ticket_tag) = 1
    /\ (last.op = "attach_tag" /\ last.status \notin {400, 401}) =>
            IF BagIn(Pair(last.req), pre.ticket_tag)
            THEN last.status = 409 /\ db = pre
            ELSE /\ last.status = 201
                 /\ db.ticket_tag = pre.ticket_tag (+) SetToBag({Pair(last.req)})
                 /\ db = [pre EXCEPT !.ticket_tag = db.ticket_tag]

\* a pair the reset had seeded was attached again and refused
C10_Witness ==
    /\ last.op = "attach_tag"
    /\ last.status = 409
    /\ BagCardinality(db.ticket_tag) >= 3
    /\ BagIn(Pair(last.req), db.ticket_tag)

\* C12: detach_tag returns 204 whether or not the relation exists; afterwards no
\* row for the pair is stored, the rows of every other pair and all other tables
\* are as before, and detaching the pair again changes nothing.
C12_DetachIdempotent ==
    last.op = "detach_tag" =>
        /\ last.status = 204
        /\ ~BagIn(Pair(last.req), db.ticket_tag)
        /\ \A r \in BagToSet(pre.ticket_tag) \cup BagToSet(db.ticket_tag) :
                r # Pair(last.req) => CopiesIn(r, db.ticket_tag) = CopiesIn(r, pre.ticket_tag)
        /\ db = [pre EXCEPT !.ticket_tag = db.ticket_tag]
        /\ detach_tag(db, last.req.ticket_id, last.req.tag_id) = Resp(db, 204, NoBody)

\* a pair that was not attached was detached while the ticket had other tags
C12_Witness ==
    /\ last.op = "detach_tag"
    /\ last.status = 204
    /\ ~BagIn(Pair(last.req), pre.ticket_tag)
    /\ \E r \in BagToSet(db.ticket_tag) :
            r.ticket_id = last.req.ticket_id /\ r.tag_id # last.req.tag_id

----------------------------------------------------------------------------
(* Claims on concurrent attach requests, under SpecConc *)

\* the authenticated attach requests for a pair that have been answered
Answered(ticket_id, tag_id) ==
    {c \in Connections :
        /\ flight[c].pc = "done"
        /\ flight[c].status \notin {400, 401}
        /\ flight[c].ticket_id = ticket_id /\ flight[c].tag_id = tag_id}

\* C11: of the authenticated attach requests for one absent pair that are served
\* concurrently, in any interleaving, exactly one is answered 201 and every other
\* 409, and exactly one row for the pair is stored afterwards.
C11_OneWinnerPerPair ==
    \A tag_id \in RelTagIds :
        LET served == Answered(1, tag_id)
            row == [ticket_id |-> 1, tag_id |-> tag_id]
        IN  IF served = {} THEN ~BagIn(row, db.ticket_tag)
            ELSE /\ Cardinality({c \in served : flight[c].status = 201}) = 1
                 /\ \A c \in served : flight[c].status \in {201, 409}
                 /\ CopiesIn(row, db.ticket_tag) = 1

\* three requests for one pair were in progress at once: the one that arrived on
\* the highest connection was answered 201, another 409, and one is still to insert
C11_Witness ==
    \E tag_id \in RelTagIds :
        /\ \A c \in Connections : flight[c].tag_id = tag_id /\ flight[c].at = StartTime
        /\ flight[1].pc = "connected"
        /\ flight[2].status = 409
        /\ flight[3].status = 201

----------------------------------------------------------------------------
(* Claims on a ticket write racing with other requests, under SpecRace *)

\* C26: in every interleaving, the write of an update or delete by a caller who is
\* not admin changes or removes only tickets whose owner, when the write is made,
\* is that caller.
C26_WriteOnlyOwnTickets ==
    (last.op \in {"update_ticket_by_id", "delete_ticket_by_id"}
        /\ last.req.caller.role # "admin") =>
        \A t \in pre.tickets \ db.tickets :
            \E u \in pre.users :
                /\ u.email = last.req.caller.email
                /\ t.user_id = Some(u.id)

====
